---- MODULE Spec2Model ----
(***************************************************************************)
(* Model of faster-whisper-rs (src/src/lib.rs): the two transcriber        *)
(* variants WhisperTranscriber (ephemeral session) and WhisperModel        *)
(* (persistent handle), the sentinel encoder convert,   the decoding of    *)
(* the foreign tuple sequence into Segment records, and the acquisition of *)
(* the Python interpreter lock around every call into the foreign runtime. *)
(***************************************************************************)
EXTENDS Integers, Sequences, FiniteSets, TLC

VARIABLES
    rt,            \* the foreign runtime the process is linked against
    gil,           \* the thread holding the interpreter lock, or NoThread
    parked,        \* threads inside a foreign call that have given the lock up
    loads,         \* times the script has been run in the module object
    pc,            \* pc[t]: the position of thread t
    frame,         \* frame[t]: the locals of the call thread t is executing
    transcribers,  \* the WhisperTranscriber values constructed so far
    models,        \* the WhisperModel values constructed so far
    done,          \* one record per call that has ended (return or panic)
    nops,          \* number of calls started
    nextId         \* identity of the next model handle new_model builds

vars == <<rt, gil, parked, loads, pc, frame, transcribers, models, done, nops, nextId>>

----------------------------------------------------------------------------
(* Bounds *)

\* Calls started in one behaviour.
MaxOps == 4

Threads == {"t1", "t2"}

NoThread == "none"

----------------------------------------------------------------------------
(* Option<T> *)

None == <<"None">>

Some(x) == <<"Some", x>>

----------------------------------------------------------------------------
(* Textual rendering (ToString) *)

Digit(d) ==
    CASE d = 0 -> "0" [] d = 1 -> "1" [] d = 2 -> "2" [] d = 3 -> "3"
      [] d = 4 -> "4" [] d = 5 -> "5" [] d = 6 -> "6" [] d = 7 -> "7"
      [] d = 8 -> "8" [] d = 9 -> "9"

RECURSIVE NatToString(_)
NatToString(n) ==
    IF n < 10 THEN Digit(n) ELSE NatToString(n \div 10) \o Digit(n % 10)

\* <i32 as ToString>::to_string
IntToString(n) == IF n < 0 THEN "-" \o NatToString(-n) ELSE NatToString(n)

\* <String as ToString>::to_string
StrToString(s) == s

\* x.to_string() for the two types the optional fields have; kind is "str"
\* for Option<String> and "int" for Option<i32>.
to_string(kind, x) == IF kind = "int" THEN IntToString(x) ELSE StrToString(x)

----------------------------------------------------------------------------
(* The sentinel encoder, once per variant as in the source *)

\* An encoder that renders an absent value as the empty text.
WhisperTranscriber_convert_Empty(kind, value) ==
    IF value[1] = "Some" THEN to_string(kind, value[2]) ELSE ""

WhisperTranscriber_convert(kind, value) ==
    IF value[1] = "Some" THEN to_string(kind, value[2]) ELSE "None"

\* An encoder that renders a present value with its wrapper.
WhisperModel_convert_Debug(kind, value) ==
    IF value[1] = "Some" THEN "Some(" \o to_string(kind, value[2]) \o ")" ELSE "None"

WhisperModel_convert(kind, value) ==
    IF value[1] = "Some" THEN to_string(kind, value[2]) ELSE "None"

----------------------------------------------------------------------------
(* Configuration (module config) *)

VadConfig(max_speech) ==
    [active |-> TRUE, threshold |-> 512, min_speech_duration |-> 250,
     max_speech_duration |-> max_speech, min_silence_duration |-> 2000,
     padding_duration |-> 400]

\* WhisperConfig::default(): no optional field is set.
DefaultConfig ==
    [starting_prompt |-> None, prefix |-> None, language |-> None,
     beam_size |-> 5, best_of |-> 5, patience |-> 1024,
     length_penalty |-> 1024, chunk_length |-> None, vad |-> VadConfig(None)]

\* Optional fields set: a prompt whose text is the four letters N, o, n, e,
\* a language, a chunk length and a negative duration; the prefix is not set.
SetConfig ==
    [starting_prompt |-> Some("None"), prefix |-> None,
     language |-> Some("en"), beam_size |-> 3, best_of |-> 2,
     patience |-> 2048, length_penalty |-> 512, chunk_length |-> Some(30),
     vad |-> VadConfig(Some(-105))]

\* (model, device, compute_type, config) given to the constructors.
Inputs ==
    { [model |-> "base.en", device |-> "cpu", compute_type |-> "int8", config |-> c] :
        c \in {DefaultConfig, SetConfig} }

Paths == {"man.mp3"}

----------------------------------------------------------------------------
(* Values of the foreign runtime.  A value is a tagged tuple:              *)
(*   <<"int", q, r>>  <<"float", m>>  <<"str", s>>  <<"none">>              *)
(*   <<"list", elems>>  <<"tuple", elems>>                                  *)
(* An int is unbounded in the foreign runtime: <<"int", q, r>> stands for   *)
(* q * Limb + r with 0 <= r < Limb.  A float m stands for the real         *)
(* m / FloatUnit.                                                          *)

FloatUnit == 2^10

LimbBits == 16

Limb == 2^LimbBits

PyInt(n) == <<"int", n \div Limb, n % Limb>>

\* An int given by its limbs, for values beyond 32 bits.
PyLong(q, r) == <<"int", q, r>>

PyFloat(m) == <<"float", m>>

PyStr(s) == <<"str", s>>

PyNone == <<"none">>

PyList(elems) == <<"list", elems>>

PyTuple(elems) == <<"tuple", elems>>

Ok(v) == <<"Ok", v>>

Err(d) == <<"Err", d>>

Panic(d) == <<"Panic", d>>

IsOk(r) == r[1] = "Ok"

IsErr(r) == r[1] = "Err"

IsPanic(r) == r[1] = "Panic"

\* Width of i32.
I32Bits == 32

\* Significand width of f32.
F32Bits == 24

RECURSIVE BitLen(_)
BitLen(n) == IF n = 0 THEN 0 ELSE 1 + BitLen(n \div 2)

\* The f64 -> f32 cast: round to F32Bits significant bits, ties to even
\* (the exponent range of f32 is not modelled).
AsF32(m) ==
    LET a  == IF m < 0 THEN -m ELSE m
        b  == BitLen(a)
        s  == IF b > F32Bits THEN 2^(b - F32Bits) ELSE 1
        q  == a \div s
        r  == a % s
        up == (2 * r > s) \/ (2 * r = s /\ q % 2 = 1)
        qq == IF up THEN q + 1 ELSE q
    IN  IF m < 0 THEN -(qq * s) ELSE qq * s

\* extract::<i32>: an int that fits in 32 bits.
ExtractI32(v) ==
    IF v[1] # "int" THEN Err("TypeError: object cannot be interpreted as an integer")
    ELSE IF v[2] < -(2^(I32Bits - 1 - LimbBits)) \/ v[2] >= 2^(I32Bits - 1 - LimbBits)
         THEN Err("OverflowError: out of range integral type conversion attempted")
         ELSE Ok(v[2] * Limb + v[3])

\* extract::<f32>: a float, or an int converted to float, cast to f32.
ExtractF32(v) ==
    IF v[1] = "float" THEN Ok(AsF32(v[2]))
    ELSE IF v[1] = "int" THEN Ok(AsF32((v[2] * Limb + v[3]) * FloatUnit))
    ELSE Err("TypeError: must be real number")

\* extract::<String>
ExtractString(v) ==
    IF v[1] = "str" THEN Ok(v[2])
    ELSE Err("TypeError: object cannot be converted to PyString")

\* The nine field extractors of (i32, i32, f32, f32, String, f32, f32, f32, f32).
ExtractField(i, v) ==
    IF i \in {1, 2} THEN ExtractI32(v)
    ELSE IF i = 5 THEN ExtractString(v)
    ELSE ExtractF32(v)

TupleArity == 9

\* extract of one tuple: a tuple object of exactly nine fields, each field
\* extracted in order, the first failure returned.
ExtractTuple(v) ==
    IF v[1] # "tuple" THEN Err("TypeError: object cannot be converted to PyTuple")
    ELSE IF Len(v[2]) # TupleArity
         THEN Err("ValueError: expected tuple of length 9")
         ELSE LET f(i) == ExtractField(i, v[2][i])
                  bad  == {i \in 1..TupleArity : IsErr(f(i))}
              IN  IF bad # {}
                  THEN f(CHOOSE i \in bad : \A j \in bad : i <= j)
                  ELSE Ok([i \in 1..TupleArity |-> f(i)[2]])

\* The elements of a sequence that extract, the others left out.
RECURSIVE KeepGood(_, _)
KeepGood(acc, elems) ==
    IF elems = <<>> THEN acc
    ELSE LET e == ExtractTuple(Head(elems))
         IN  KeepGood(IF IsOk(e) THEN Append(acc, e[2]) ELSE acc, Tail(elems))

\* An extraction that skips what does not fit instead of failing.
ExtractVec_SkipBad(v) ==
    IF v[1] \notin {"list", "tuple"} THEN Ok(<<>>) ELSE Ok(KeepGood(<<>>, v[2]))

\* extract::<Vec<(..)>>: a sequence object that is not a str, every element
\* extracted in order, the first failure returned.
ExtractVec(v) ==
    IF v[1] = "str" THEN Err("TypeError: cannot extract str to Vec")
    ELSE IF v[1] \notin {"list", "tuple"}
         THEN Err("TypeError: object cannot be converted to Sequence")
         ELSE LET e(i) == ExtractTuple(v[2][i])
                  bad  == {i \in 1..Len(v[2]) : IsErr(e(i))}
              IN  IF bad # {}
                  THEN e(CHOOSE i \in bad : \A j \in bad : i <= j)
                  ELSE Ok([i \in 1..Len(v[2]) |-> e(i)[2]])

----------------------------------------------------------------------------
(* Segment, Segments *)

\* A Segment with start and end taken from each other's place.
MakeSegment_Swapped(segment) ==
    [id |-> segment[1], seek |-> segment[2], start |-> segment[4],
     end |-> segment[3], text |-> segment[5], temperature |-> segment[6],
     avg_logprob |-> segment[7], compression_ratio |-> segment[8],
     no_speech_prob |-> segment[9]]

\* Segment { id: segment.0, seek: segment.1, ... }
MakeSegment(segment) ==
    [id |-> segment[1], seek |-> segment[2], start |-> segment[3],
     end |-> segment[4], text |-> segment[5], temperature |-> segment[6],
     avg_logprob |-> segment[7], compression_ratio |-> segment[8],
     no_speech_prob |-> segment[9]]

\* The loop: for segment in pysegments, segments.push(Segment ...).
RECURSIVE PushSegments(_, _)
PushSegments(segments, pysegments) ==
    IF pysegments = <<>> THEN segments
    ELSE PushSegments(Append(segments, MakeSegment(Head(pysegments))),
                      Tail(pysegments))

WhisperTranscriber_decode(pysegments) == PushSegments(<<>>, pysegments)

WhisperModel_decode(pysegments) == PushSegments(<<>>, pysegments)

RECURSIVE PushStrSpaced(_, _)
PushStrSpaced(text, segments) ==
    IF segments = <<>> THEN text
    ELSE PushStrSpaced(text \o Head(segments).text \o " ", Tail(segments))

\* A text loop that puts a space after every segment.
WhisperTranscriber_text_Spaced(segments) == PushStrSpaced("", segments)

\* The loop: for segment in &segments, text.push_str(&segment.text).
RECURSIVE PushStr(_, _)
PushStr(text, segments) ==
    IF segments = <<>> THEN text
    ELSE PushStr(text \o Head(segments).text, Tail(segments))

WhisperTranscriber_text(segments) == PushStr("", segments)

WhisperModel_text(segments) == PushStr("", segments)

\* Segments(text, segments)
Segments(text, segments) == <<text, segments>>

\* impl ToString for Segments
Segments_to_string(s) == s[1]

----------------------------------------------------------------------------
(* The foreign runtime: the script of module pyscripts and the library it  *)
(* imports.  The runtime is fixed for a behaviour (rt never changes), so   *)
(* every entry point is a function of its arguments.                       *)

\* Nine-field tuples as transcribe_audio builds them.
TupleA ==
    PyTuple(<<PyInt(0), PyInt(0), PyFloat(0), PyFloat(2560), PyStr(" the quick"),
              PyFloat(0), PyFloat(-256), PyFloat(1536), PyFloat(10)>>)

\* A later segment: a float that f32 cannot hold exactly, and an int where
\* a float is expected.
TupleB ==
    PyTuple(<<PyInt(1), PyInt(250), PyFloat(2560), PyFloat(16777219),
              PyStr(" brown fox"), PyInt(0), PyFloat(-33554433), PyFloat(1024),
              PyFloat(3)>>)

\* Eight fields.
TupleShort ==
    PyTuple(<<PyInt(2), PyInt(500), PyFloat(5120), PyFloat(6144), PyStr(" jumps"),
              PyFloat(0), PyFloat(-256), PyFloat(1536)>>)

\* Nine fields, the text an int.
TupleBadText ==
    PyTuple(<<PyInt(2), PyInt(500), PyFloat(5120), PyFloat(6144), PyInt(5),
              PyFloat(0), PyFloat(-256), PyFloat(1536), PyFloat(10)>>)

\* Nine fields, the id outside i32.
TupleBigId ==
    PyTuple(<<PyLong(2^(I32Bits - 1 - LimbBits), 0), PyInt(500), PyFloat(5120), PyFloat(6144), PyStr(" jumps"),
              PyFloat(0), PyFloat(-256), PyFloat(1536), PyFloat(10)>>)

\* What transcribe_audio does with the audio: raise, or return a value.
Audios ==
    { <<"return", PyList(<<>>)>>,
      <<"return", PyList(<<TupleA>>)>>,
      <<"return", PyList(<<TupleB, TupleA, TupleB>>)>>,
      <<"return", PyList(<<TupleA, TupleShort, TupleB>>)>>,
      <<"return", PyList(<<TupleA, TupleBadText>>)>>,
      <<"return", PyList(<<TupleBigId>>)>>,
      <<"return", PyNone>>,
      <<"raise", "RuntimeError: failed to open audio">> }

\* Model names new_model accepts: none when the model cannot be fetched.
KnownModels(r) == IF r.defect = "model_unavailable" THEN {} ELSE {"base.en"}

Defects == {"import_fails", "no_new_model", "no_transcribe_audio", "model_unavailable"}

Runtimes ==
    { [defect |-> "none", audio |-> a] : a \in Audios }
    \cup { [defect |-> d, audio |-> <<"return", PyList(<<TupleA>>)>>] : d \in Defects }

\* PyModule::from_code: run the script.
Py_from_code(r) ==
    IF r.defect = "import_fails"
    THEN Err("ModuleNotFoundError: No module named faster_whisper")
    ELSE Ok("Whisper")

\* getattr(name) on the loaded module.
Py_getattr(r, name) ==
    IF r.defect = "no_" \o name
    THEN Err("AttributeError: module Whisper has no attribute " \o name)
    ELSE Ok(name)

\* new_model(model, device, compute_type): the handle of a new model.
Py_new_model(r, args, id) ==
    IF args[1] \notin KnownModels(r)
    THEN Err("ValueError: Invalid model size " \o args[1])
    ELSE Ok([id |-> id, args |-> args])

\* transcribe_audio(model, path, ...).
Py_transcribe_audio(r, args) ==
    IF r.audio[1] = "raise" THEN Err(r.audio[2]) ELSE Ok(r.audio[2])

----------------------------------------------------------------------------
(* Objects and frames *)

NoHandle == [id |-> 0, args |-> <<>>]

\* The one module object every from_code(.., "Whisper") returns: the script
\* is run again in it, it is not replaced.
WhisperModule == "Whisper"

NoModule == ""

Unset == <<"unset">>

\* WhisperTranscriber { model, device, compute_type, config }
WhisperTranscriber(model, device, compute_type, config) ==
    [model |-> model, device |-> device, compute_type |-> compute_type,
     config |-> config]

\* WhisperModel { module, model, config }
WhisperModel(module, model, config) ==
    [module |-> module, model |-> model, config |-> config]

Event(call, args) == [call |-> call, args |-> args]

IdleFrame ==
    [op |-> "none", self |-> <<>>, path |-> "", module |-> NoModule, model |-> NoHandle,
     args |-> <<>>, pysegments |-> Unset, segments |-> <<>>, calls |-> <<>>]

NewFrame(op, self, path) ==
    [IdleFrame EXCEPT !.op = op, !.self = self, !.path = path]

\* The record of a call that has ended.
DoneRecord(f, calls, outcome) ==
    [op |-> f.op, self |-> f.self, path |-> f.path, calls |-> calls,
     pysegments |-> f.pysegments, outcome |-> outcome]

\* Foreign calls in flight: the thread is inside the call named by its pc.
ForeignPcs ==
    {"t_from_code", "t_new_model", "t_transcribe_audio", "t_extract",
     "m_from_code", "m_new_model", "mt_transcribe_audio", "mt_extract"}

AttachPcs == {"t_attach", "m_attach", "mt_attach"}

\* Where a thread goes once it holds the lock.
AfterAttach(p) ==
    CASE p = "t_attach" -> "t_from_code"
      [] p = "m_attach" -> "m_from_code"
      [] p = "mt_attach" -> "mt_transcribe_audio"

----------------------------------------------------------------------------
(* Python::attach / Python::with_gil *)

\* The interpreter lock is granted to one thread at a time.
GilFree == gil = NoThread

\* Entering the closure: the thread blocks until the lock is free.
Attach(t) ==
    /\ pc[t] \in AttachPcs
    /\ GilFree
    /\ gil' = t
    /\ pc' = [pc EXCEPT ![t] = AfterAttach(pc[t])]
    /\ frame' = [frame EXCEPT ![t].calls = Append(@, Event("attach", <<>>))]
    /\ UNCHANGED <<rt, parked, loads, transcribers, models, done, nops, nextId>>

\* Foreign calls that run code of the interpreter (the script body, new_model,
\* transcribe_audio); lookups and extraction of built-in values run none.
YieldPcs ==
    {"t_from_code", "t_new_model", "t_transcribe_audio",
     "m_from_code", "m_new_model", "mt_transcribe_audio"}

\* The next foreign call of t runs code of the interpreter: the script body,
\* or an entry point that the lookup on the module finds.
RunsCode(t) ==
    /\ pc[t] \in YieldPcs
    /\ pc[t] \in {"t_new_model", "m_new_model"} => IsOk(Py_getattr(rt, "new_model"))
    /\ pc[t] \in {"t_transcribe_audio", "mt_transcribe_audio"} =>
          IsOk(Py_getattr(rt, "transcribe_audio"))

\* During a foreign call that runs interpreter code the interpreter gives the
\* lock up (around a blocking call, or at the switch interval for a waiting
\* thread), whether or not another thread wants it; the call of t is then
\* suspended, still in flight.
Handover(t) ==
    /\ RunsCode(t)
    /\ gil = t
    /\ gil' = NoThread
    /\ parked' = parked \cup {t}
    /\ UNCHANGED <<rt, loads, pc, frame, transcribers, models, done, nops, nextId>>

\* The suspended call takes the lock again and goes on.
Resume(t) ==
    /\ t \in parked
    /\ GilFree
    /\ gil' = t
    /\ parked' = parked \ {t}
    /\ UNCHANGED <<rt, loads, pc, frame, transcribers, models, done, nops, nextId>>

\* Leaving the closure with a value: the lock is released, the call goes on.
Leave(t, next, f) ==
    /\ gil' = NoThread
    /\ pc' = [pc EXCEPT ![t] = next]
    /\ frame' = [frame EXCEPT ![t] = [f EXCEPT !.calls = Append(@, Event("release", <<>>))]]
    /\ UNCHANGED <<rt, parked, loads, transcribers, models, done, nops, nextId>>

\* Leaving the closure with Err, returned at once by the ? after it.
LeaveErr(t, f, desc) ==
    /\ gil' = NoThread
    /\ pc' = [pc EXCEPT ![t] = "idle"]
    /\ frame' = [frame EXCEPT ![t] = IdleFrame]
    /\ done' = done \cup {DoneRecord(f, Append(f.calls, Event("release", <<>>)), Err(desc))}
    /\ UNCHANGED <<rt, parked, loads, transcribers, models, nops, nextId>>

\* A panic inside the closure: unwinding releases the lock, the thread ends.
LeavePanic(t, f, desc) ==
    /\ gil' = NoThread
    /\ pc' = [pc EXCEPT ![t] = "panicked"]
    /\ frame' = [frame EXCEPT ![t] = IdleFrame]
    /\ done' = done \cup {DoneRecord(f, Append(f.calls, Event("release", <<>>)), Panic(desc))}
    /\ UNCHANGED <<rt, parked, loads, transcribers, models, nops, nextId>>

\* Going on inside the closure.
Inside(t, next, f) ==
    /\ pc' = [pc EXCEPT ![t] = next]
    /\ frame' = [frame EXCEPT ![t] = f]
    /\ UNCHANGED <<rt, parked, gil, transcribers, models, done, nops>>

----------------------------------------------------------------------------
(* WhisperTranscriber *)

\* WhisperTranscriber::new: builds the value, nothing else.
WhisperTranscriber_new(t, i) ==
    /\ pc[t] = "idle"
    /\ nops < MaxOps
    /\ nops' = nops + 1
    /\ LET self == WhisperTranscriber(i.model, i.device, i.compute_type, i.config)
       IN  /\ transcribers' = transcribers \cup {self}
           /\ done' = done \cup {DoneRecord(NewFrame("WhisperTranscriber::new", self, ""),
                                            <<>>, Ok(self))}
    /\ UNCHANGED <<rt, parked, loads, gil, pc, frame, models, nextId>>

\* The tuple vad of WhisperTranscriber::transcribe.
WhisperTranscriber_vad(config) ==
    <<config.vad.active, config.vad.threshold, config.vad.min_speech_duration,
      WhisperTranscriber_convert("int", config.vad.max_speech_duration),
      config.vad.min_silence_duration, config.vad.padding_duration>>

\* The tuple transcribe_args of WhisperTranscriber::transcribe.
WhisperTranscriber_transcribe_args(self, model, path) ==
    <<model, path,
      WhisperTranscriber_convert("str", self.config.starting_prompt),
      WhisperTranscriber_convert("str", self.config.prefix),
      WhisperTranscriber_convert("str", self.config.language),
      self.config.beam_size, self.config.best_of, self.config.patience,
      self.config.length_penalty,
      WhisperTranscriber_convert("int", self.config.chunk_length),
      WhisperTranscriber_vad(self.config)>>

\* WhisperTranscriber::transcribe is called: get_script(), then Python::attach.
WhisperTranscriber_transcribe(t, self, path) ==
    /\ pc[t] = "idle"
    /\ nops < MaxOps
    /\ nops' = nops + 1
    /\ pc' = [pc EXCEPT ![t] = "t_attach"]
    /\ frame' = [frame EXCEPT ![t] = NewFrame("WhisperTranscriber::transcribe", self, path)]
    /\ UNCHANGED <<rt, parked, loads, gil, transcribers, models, done, nextId>>

\* PyModule::from_code(..).expect("should have activators")
WhisperTranscriber_from_code(t) ==
    /\ pc[t] = "t_from_code"
    /\ gil = t
    /\ LET f == [frame[t] EXCEPT !.calls = Append(@, Event("from_code", <<WhisperModule>>))]
           r == Py_from_code(rt)
       IN  IF IsErr(r)
           THEN LeavePanic(t, f, "should have activators: " \o r[2])
           ELSE /\ Inside(t, "t_new_model", [f EXCEPT !.module = WhisperModule])
                /\ loads' = loads + 1
                /\ nextId' = nextId

\* activators.getattr("new_model")?.call1(args)?
WhisperTranscriber_new_model(t) ==
    /\ pc[t] = "t_new_model"
    /\ gil = t
    /\ LET f0 == frame[t]
           args == <<f0.self.model, f0.self.device, f0.self.compute_type>>
           f1 == [f0 EXCEPT !.calls = Append(@, Event("getattr", <<f0.module, "new_model">>))]
           g  == Py_getattr(rt, "new_model")
           f2 == [f1 EXCEPT !.calls = Append(@, Event("new_model", args))]
           r  == Py_new_model(rt, args, nextId)
       IN  IF IsErr(g) THEN LeaveErr(t, f1, g[2])
           ELSE IF IsErr(r) THEN LeaveErr(t, f2, r[2])
           ELSE /\ Inside(t, "t_transcribe_audio",
                          [f2 EXCEPT !.model = r[2],
                                     !.args = WhisperTranscriber_transcribe_args(f0.self, r[2], f0.path)])
                /\ nextId' = nextId + 1
                /\ loads' = loads

\* activators.getattr("transcribe_audio")?.call1(transcribe_args)?
WhisperTranscriber_transcribe_audio(t) ==
    /\ pc[t] = "t_transcribe_audio"
    /\ gil = t
    /\ nextId' = nextId
    /\ loads' = loads
    /\ LET f0 == frame[t]
           f1 == [f0 EXCEPT !.calls = Append(@, Event("getattr", <<f0.module, "transcribe_audio">>))]
           g  == Py_getattr(rt, "transcribe_audio")
           f2 == [f1 EXCEPT !.calls = Append(@, Event("transcribe_audio", f0.args))]
           r  == Py_transcribe_audio(rt, f0.args)
       IN  IF IsErr(g) THEN LeaveErr(t, f1, g[2])
           ELSE IF IsErr(r) THEN LeaveErr(t, f2, r[2])
           ELSE Inside(t, "t_extract", [f2 EXCEPT !.pysegments = r[2]])

\* .extract::<Vec<(i32, i32, f32, f32, String, f32, f32, f32, f32)>>()?, the
\* loop that builds the Segment vector, and the end of the closure.
WhisperTranscriber_extract(t) ==
    /\ pc[t] = "t_extract"
    /\ gil = t
    /\ LET f == [frame[t] EXCEPT !.calls = Append(@, Event("extract", <<>>))]
           r == ExtractVec(f.pysegments)
       IN  IF IsErr(r) THEN LeaveErr(t, f, r[2])
           ELSE Leave(t, "t_text", [f EXCEPT !.segments = WhisperTranscriber_decode(r[2])])

\* The text loop and Ok(Segments(text, segments)).
WhisperTranscriber_return(t) ==
    /\ pc[t] = "t_text"
    /\ LET f == frame[t]
           text == WhisperTranscriber_text(f.segments)
       IN  done' = done \cup {DoneRecord(f, f.calls, Ok(Segments(text, f.segments)))}
    /\ pc' = [pc EXCEPT ![t] = "idle"]
    /\ frame' = [frame EXCEPT ![t] = IdleFrame]
    /\ UNCHANGED <<rt, parked, loads, gil, transcribers, models, nops, nextId>>

----------------------------------------------------------------------------
(* WhisperModel *)

\* WhisperModel::new is called: get_script(), then Python::with_gil.
WhisperModel_new(t, i) ==
    /\ pc[t] = "idle"
    /\ nops < MaxOps
    /\ nops' = nops + 1
    /\ pc' = [pc EXCEPT ![t] = "m_attach"]
    /\ frame' = [frame EXCEPT ![t] = NewFrame("WhisperModel::new", i, "")]
    /\ UNCHANGED <<rt, parked, loads, gil, transcribers, models, done, nextId>>

\* The arguments WhisperModel::default gives to new.
DefaultInputs ==
    [model |-> "base.en", device |-> "cpu", compute_type |-> "int8",
     config |-> DefaultConfig]

\* WhisperModel::default: Self::new("base.en", "cpu", "int8", default).unwrap()
WhisperModel_default(t) ==
    /\ pc[t] = "idle"
    /\ nops < MaxOps
    /\ nops' = nops + 1
    /\ pc' = [pc EXCEPT ![t] = "m_attach"]
    /\ frame' = [frame EXCEPT ![t] = NewFrame("WhisperModel::default", DefaultInputs, "")]
    /\ UNCHANGED <<rt, parked, loads, gil, transcribers, models, done, nextId>>

\* PyModule::from_code(..).expect("should have activators")
WhisperModel_from_code(t) ==
    /\ pc[t] = "m_from_code"
    /\ gil = t
    /\ LET f == [frame[t] EXCEPT !.calls = Append(@, Event("from_code", <<WhisperModule>>))]
           r == Py_from_code(rt)
       IN  IF IsErr(r)
           THEN LeavePanic(t, f, "should have activators: " \o r[2])
           ELSE /\ Inside(t, "m_new_model", [f EXCEPT !.module = WhisperModule])
                /\ loads' = loads + 1
                /\ nextId' = nextId

\* What new does when new_model cannot be looked up or raises.
WhisperModel_new_failure(t, f, desc) == LeavePanic(t, f, "unwrap on Err: " \o desc)

\* activators.getattr("new_model").unwrap().call1(args).unwrap().unbind(),
\* Self { module, model, config }, the end of the closure and Ok(m).
WhisperModel_new_model(t) ==
    /\ pc[t] = "m_new_model"
    /\ gil = t
    /\ LET f0 == frame[t]
           args == <<f0.self.model, f0.self.device, f0.self.compute_type>>
           f1 == [f0 EXCEPT !.calls = Append(@, Event("getattr", <<f0.module, "new_model">>))]
           g  == Py_getattr(rt, "new_model")
           f2 == [f1 EXCEPT !.calls = Append(@, Event("new_model", args))]
           r  == Py_new_model(rt, args, nextId)
           m  == WhisperModel(f0.module, r[2], f0.self.config)
       IN  IF IsErr(g) THEN WhisperModel_new_failure(t, f1, g[2])
           ELSE IF IsErr(r) THEN WhisperModel_new_failure(t, f2, r[2])
           ELSE /\ gil' = NoThread
                /\ pc' = [pc EXCEPT ![t] = "idle"]
                /\ frame' = [frame EXCEPT ![t] = IdleFrame]
                /\ models' = models \cup {m}
                /\ done' = done \cup {DoneRecord(f2, Append(f2.calls, Event("release", <<>>)), Ok(m))}
                /\ nextId' = nextId + 1
                /\ UNCHANGED <<rt, parked, loads, transcribers, nops>>

\* The tuple vad of WhisperModel::transcribe.
WhisperModel_vad(config) ==
    <<config.vad.active, config.vad.threshold, config.vad.min_speech_duration,
      WhisperModel_convert("int", config.vad.max_speech_duration),
      config.vad.min_silence_duration, config.vad.padding_duration>>

\* An argument tuple with prefix and language in each other's place.
WhisperModel_transcribe_args_Swapped(self, path) ==
    <<self.model, path,
      WhisperModel_convert("str", self.config.starting_prompt),
      WhisperModel_convert("str", self.config.language),
      WhisperModel_convert("str", self.config.prefix),
      self.config.beam_size, self.config.best_of, self.config.patience,
      self.config.length_penalty,
      WhisperModel_convert("int", self.config.chunk_length),
      WhisperModel_vad(self.config)>>

\* The tuple args of WhisperModel::transcribe.
WhisperModel_transcribe_args(self, path) ==
    <<self.model, path,
      WhisperModel_convert("str", self.config.starting_prompt),
      WhisperModel_convert("str", self.config.prefix),
      WhisperModel_convert("str", self.config.language),
      self.config.beam_size, self.config.best_of, self.config.patience,
      self.config.length_penalty,
      WhisperModel_convert("int", self.config.chunk_length),
      WhisperModel_vad(self.config)>>

\* WhisperModel::transcribe is called: Python::with_gil.
WhisperModel_transcribe(t, self, path) ==
    /\ pc[t] = "idle"
    /\ nops < MaxOps
    /\ nops' = nops + 1
    /\ pc' = [pc EXCEPT ![t] = "mt_attach"]
    /\ frame' = [frame EXCEPT ![t] = NewFrame("WhisperModel::transcribe", self, path)]
    /\ UNCHANGED <<rt, parked, loads, gil, transcribers, models, done, nextId>>

\* A transcribe that loads the script and builds the model again, as the
\* ephemeral variant does, instead of using what new stored.
WhisperModel_transcribe_audio_Reload(t) ==
    /\ pc[t] = "mt_transcribe_audio"
    /\ gil = t
    /\ LET f0 == frame[t]
           margs == f0.self.model.args
           model == [id |-> nextId, args |-> margs]
           args == WhisperModel_transcribe_args([f0.self EXCEPT !.model = model], f0.path)
           f2 == [f0 EXCEPT !.calls = @ \o <<Event("from_code", <<WhisperModule>>),
                                              Event("getattr", <<WhisperModule, "new_model">>),
                                              Event("new_model", margs),
                                              Event("getattr", <<WhisperModule, "transcribe_audio">>),
                                              Event("transcribe_audio", args)>>,
                            !.args = args]
           r  == Py_transcribe_audio(rt, args)
       IN  IF IsErr(r) THEN LeaveErr(t, f2, r[2])
           ELSE /\ Inside(t, "mt_extract", [f2 EXCEPT !.pysegments = r[2]])
                /\ nextId' = nextId + 1
                /\ loads' = loads + 1

\* self.module.getattr(py, "transcribe_audio").unwrap().call1(py, args)?
WhisperModel_transcribe_audio(t) ==
    /\ pc[t] = "mt_transcribe_audio"
    /\ gil = t
    /\ nextId' = nextId
    /\ loads' = loads
    /\ LET f0 == frame[t]
           args == WhisperModel_transcribe_args(f0.self, f0.path)
           f1 == [f0 EXCEPT !.calls = Append(@, Event("getattr", <<f0.self.module, "transcribe_audio">>)),
                            !.args = args]
           g  == Py_getattr(rt, "transcribe_audio")
           f2 == [f1 EXCEPT !.calls = Append(@, Event("transcribe_audio", args))]
           r  == Py_transcribe_audio(rt, args)
       IN  IF IsErr(g) THEN LeavePanic(t, f1, "unwrap on Err: " \o g[2])
           ELSE IF IsErr(r) THEN LeaveErr(t, f2, r[2])
           ELSE Inside(t, "mt_extract", [f2 EXCEPT !.pysegments = r[2]])

\* .extract::<Vec<(i32, i32, f32, f32, String, f32, f32, f32, f32)>>(py)?, the
\* loop that builds the Segment vector, and the end of the closure.
WhisperModel_extract(t) ==
    /\ pc[t] = "mt_extract"
    /\ gil = t
    /\ LET f == [frame[t] EXCEPT !.calls = Append(@, Event("extract", <<>>))]
           r == ExtractVec(f.pysegments)
       IN  IF IsErr(r) THEN LeaveErr(t, f, r[2])
           ELSE Leave(t, "mt_text", [f EXCEPT !.segments = WhisperModel_decode(r[2])])

\* The text loop and Ok(Segments(text, segments)).
WhisperModel_return(t) ==
    /\ pc[t] = "mt_text"
    /\ LET f == frame[t]
           text == WhisperModel_text(f.segments)
       IN  done' = done \cup {DoneRecord(f, f.calls, Ok(Segments(text, f.segments)))}
    /\ pc' = [pc EXCEPT ![t] = "idle"]
    /\ frame' = [frame EXCEPT ![t] = IdleFrame]
    /\ UNCHANGED <<rt, parked, loads, gil, transcribers, models, nops, nextId>>

----------------------------------------------------------------------------
(* The system *)

Init ==
    /\ rt \in Runtimes
    /\ gil = NoThread
    /\ parked = {}
    /\ loads = 0
    /\ pc = [t \in Threads |-> "idle"]
    /\ frame = [t \in Threads |-> IdleFrame]
    /\ transcribers = {}
    /\ models = {}
    /\ done = {}
    /\ nops = 0
    /\ nextId = 1

Next ==
    \E t \in Threads :
        \/ \E i \in Inputs : WhisperTranscriber_new(t, i)
        \/ \E self \in transcribers, path \in Paths : WhisperTranscriber_transcribe(t, self, path)
        \/ Attach(t)
        \/ Handover(t)
        \/ Resume(t)
        \/ WhisperTranscriber_from_code(t)
        \/ WhisperTranscriber_new_model(t)
        \/ WhisperTranscriber_transcribe_audio(t)
        \/ WhisperTranscriber_extract(t)
        \/ WhisperTranscriber_return(t)
        \/ \E i \in Inputs : WhisperModel_new(t, i)
        \/ WhisperModel_default(t)
        \/ WhisperModel_from_code(t)
        \/ WhisperModel_new_model(t)
        \/ \E self \in models, path \in Paths : WhisperModel_transcribe(t, self, path)
        \/ WhisperModel_transcribe_audio(t)
        \/ WhisperModel_extract(t)
        \/ WhisperModel_return(t)

Spec == Init /\ [][Next]_vars

----------------------------------------------------------------------------
(* Reading the records of ended calls *)

TranscribeOps == {"WhisperTranscriber::transcribe", "WhisperModel::transcribe"}

ConstructOps == {"WhisperModel::new", "WhisperModel::default"}

\* Positions of the events of one kind in a call's trace.
EventsOf(calls, name) == {i \in DOMAIN calls : calls[i].call = name}

Count(calls, name) == Cardinality(EventsOf(calls, name))

\* The argument tuples a call handed to transcribe_audio.
TranscribeAudioArgs(d) ==
    {d.calls[i].args : i \in EventsOf(d.calls, "transcribe_audio")}

\* The number an int value stands for, and the real (in units of
\* 1 / FloatUnit) a number value stands for.
IntOf(v) == v[2] * Limb + v[3]

RealOf(v) == IF v[1] = "int" THEN IntOf(v) * FloatUnit ELSE v[2]

----------------------------------------------------------------------------
(* C1 *)

InForeignCall == {t \in Threads : pc[t] \in ForeignPcs}

\* C1: at most one call into the foreign runtime (script load, new_model,
\* transcribe_audio, result extraction) is in flight at any instant, whatever
\* the threads and the instances they call: no two threads are inside such
\* calls at once.  (The lock itself has one holder at a time: gil is one
\* thread or NoThread.)
C1_MutualExclusion == Cardinality(InForeignCall) <= 1

----------------------------------------------------------------------------
(* C2 *)

\* Ended calls of the two variants that were given the same model, device,
\* compute type, configuration and audio path.
SameInputs(e, p) ==
    /\ e.op = "WhisperTranscriber::transcribe"
    /\ p.op = "WhisperModel::transcribe"
    /\ <<e.self.model, e.self.device, e.self.compute_type>> = p.self.model.args
    /\ e.self.config = p.self.config
    /\ e.path = p.path

\* Two argument tuples of transcribe_audio that differ at most in which
\* model object (built from the same arguments) they carry.
SameCall(a, b) ==
    /\ a[1].args = b[1].args
    /\ SubSeq(a, 2, Len(a)) = SubSeq(b, 2, Len(b))

\* C2: on identical inputs and the same foreign runtime, the ephemeral and
\* the persistent variant hand the same arguments to transcribe_audio, and
\* when either returns Ok the other returns Ok with the same Segments value
\* (same segments, same fields, same text).
C2_VariantsAgree ==
    \A e, p \in done :
        SameInputs(e, p) =>
            /\ (TranscribeAudioArgs(e) = {}) <=> (TranscribeAudioArgs(p) = {})
            /\ \A a \in TranscribeAudioArgs(e), b \in TranscribeAudioArgs(p) : SameCall(a, b)
            /\ (IsOk(e.outcome) \/ IsOk(p.outcome)) => e.outcome = p.outcome

\* Both variants have returned Ok on the same inputs, with optional fields
\* set and more than one segment.
C2_Witness ==
    \E e, p \in done :
        /\ SameInputs(e, p)
        /\ e.self.config = SetConfig
        /\ IsOk(e.outcome) /\ IsOk(p.outcome)
        /\ Len(e.outcome[2][2]) > 1

----------------------------------------------------------------------------
(* C3 *)

RECURSIVE TextLenBefore(_, _)
\* Total length of the texts of the segments before position i.
TextLenBefore(segs, i) ==
    IF i <= 1 THEN 0 ELSE TextLenBefore(segs, i - 1) + Len(segs[i - 1].text)

\* The text is the segments' texts laid end to end.
IsJoin(text, segs) ==
    /\ Len(text) = TextLenBefore(segs, Len(segs) + 1)
    /\ \A i \in DOMAIN segs :
          SubSeq(text, TextLenBefore(segs, i) + 1, TextLenBefore(segs, i + 1)) = segs[i].text
    /\ segs = <<>> => text = ""

\* C3: for every Segments value returned by either variant, the text (what
\* to_string gives) is the concatenation of segment.text over the segment
\* sequence, in order, with nothing inserted; empty for no segments.
C3_TextIsConcatenation ==
    \A d \in done :
        (d.op \in TranscribeOps /\ IsOk(d.outcome)) =>
            IsJoin(Segments_to_string(d.outcome[2]), d.outcome[2][2])

\* Both variants have returned a value of three segments with non-empty text.
C3_Witness ==
    \A o \in TranscribeOps :
        \E d \in done :
            /\ d.op = o
            /\ IsOk(d.outcome)
            /\ Len(d.outcome[2][2]) = 3
            /\ Len(Segments_to_string(d.outcome[2])) > Len(d.outcome[2][2][1].text)

----------------------------------------------------------------------------
(* C4 *)

\* Segment seg holds the nine fields of tuple value tup, position by position.
HoldsFields(seg, tup) ==
    /\ seg.id = IntOf(tup[2][1])
    /\ seg.seek = IntOf(tup[2][2])
    /\ seg.start = AsF32(RealOf(tup[2][3]))
    /\ seg.end = AsF32(RealOf(tup[2][4]))
    /\ seg.text = tup[2][5][2]
    /\ seg.temperature = AsF32(RealOf(tup[2][6]))
    /\ seg.avg_logprob = AsF32(RealOf(tup[2][7]))
    /\ seg.compression_ratio = AsF32(RealOf(tup[2][8]))
    /\ seg.no_speech_prob = AsF32(RealOf(tup[2][9]))

\* C4: for every successful transcribe of either variant, the returned
\* Segment sequence is as long as the tuple sequence transcribe_audio
\* returned, and the i-th Segment holds the fields of the i-th tuple,
\* position by position: nothing reordered, dropped or merged.
C4_PositionalDecoding ==
    \A d \in done :
        (d.op \in TranscribeOps /\ IsOk(d.outcome)) =>
            LET segs == d.outcome[2][2]
                tups == d.pysegments[2]
            IN  /\ Len(segs) = Len(tups)
                /\ \A i \in DOMAIN segs : HoldsFields(segs[i], tups[i])

\* A successful call whose foreign result repeats a tuple and is not in
\* ascending id order.
C4_Witness ==
    \E d \in done :
        /\ d.op \in TranscribeOps
        /\ IsOk(d.outcome)
        /\ d.pysegments = PyList(<<TupleB, TupleA, TupleB>>)
        /\ d.outcome[2][2][1].id > d.outcome[2][2][2].id

----------------------------------------------------------------------------
(* C5 *)

\* The string an optional field is to cross as.
Encoded(kind, value) == IF value = None THEN "None" ELSE to_string(kind, value[2])

\* The five optional fields sit at their places in the argument tuple,
\* encoded.
OptionalsEncoded(config, a) ==
    /\ a[3] = Encoded("str", config.starting_prompt)
    /\ a[4] = Encoded("str", config.prefix)
    /\ a[5] = Encoded("str", config.language)
    /\ a[10] = Encoded("int", config.chunk_length)
    /\ a[11][4] = Encoded("int", config.vad.max_speech_duration)

AllAbsent(config) ==
    /\ config.starting_prompt = None /\ config.prefix = None
    /\ config.language = None /\ config.chunk_length = None
    /\ config.vad.max_speech_duration = None

\* C5: in both variants each of the five optional configuration fields
\* reaches transcribe_audio as its textual rendering when present and as
\* "None" when absent; with all five absent all five arguments are "None".
C5_OptionalsThroughEncoder ==
    \A d \in done :
        d.op \in TranscribeOps =>
            \A a \in TranscribeAudioArgs(d) :
                /\ OptionalsEncoded(d.self.config, a)
                /\ AllAbsent(d.self.config) =>
                      <<a[3], a[4], a[5], a[10], a[11][4]>> = <<"None", "None", "None", "None", "None">>

\* Both variants have called transcribe_audio, one with every optional
\* field absent and one with fields present.
C5_Witness ==
    \E d, e \in done :
        /\ d.op \in TranscribeOps /\ e.op \in TranscribeOps
        /\ d.op # e.op
        /\ AllAbsent(d.self.config) /\ e.self.config = SetConfig
        /\ TranscribeAudioArgs(d) # {} /\ TranscribeAudioArgs(e) # {}

----------------------------------------------------------------------------
(* C6 *)

\* The optional fields of a configuration with the places they cross at.
OptionalFields(config, a) ==
    { <<"str", config.starting_prompt, a[3]>>,
      <<"str", config.prefix, a[4]>>,
      <<"str", config.language, a[5]>>,
      <<"int", config.chunk_length, a[10]>>,
      <<"int", config.vad.max_speech_duration, a[11][4]>> }

\* C6 as stated: a present optional field crosses as its plain textual
\* rendering and never as the sentinel "None".
C6_PresentNeverSentinel ==
    \A d \in done :
        d.op \in TranscribeOps =>
            \A a \in TranscribeAudioArgs(d) :
                \A f \in OptionalFields(d.self.config, a) :
                    f[2] # None => (f[3] = to_string(f[1], f[2][2]) /\ f[3] # "None")

\* C6 amended: a present optional field crosses as its plain textual
\* rendering; that string differs from the sentinel "None" for every integer
\* field and for every text field whose text is not itself "None".  For the
\* values of SetConfig the strings are "None" (the prompt), "en", "30", "-105".
C6_PresentIsRendering ==
    \A d \in done :
        d.op \in TranscribeOps =>
            \A a \in TranscribeAudioArgs(d) :
                /\ \A f \in OptionalFields(d.self.config, a) :
                      f[2] # None =>
                          /\ f[3] = to_string(f[1], f[2][2])
                          /\ (f[1] = "int" \/ f[2][2] # "None") => f[3] # "None"
                /\ d.self.config = SetConfig =>
                      <<a[3], a[5], a[10], a[11][4]>> = <<"None", "en", "30", "-105">>

\* Both variants have handed transcribe_audio present optional fields.
C6_Witness ==
    \A o \in TranscribeOps :
        \E d \in done :
            /\ d.op = o
            /\ d.self.config = SetConfig
            /\ TranscribeAudioArgs(d) # {}

----------------------------------------------------------------------------
(* C7 *)

\* A field value that does not convert to the type of its place.
BadField(i, v) ==
    IF i \in {1, 2}
    THEN v[1] # "int" \/ v[2] < -(2^(I32Bits - 1 - LimbBits)) \/ v[2] >= 2^(I32Bits - 1 - LimbBits)
    ELSE IF i = 5 THEN v[1] # "str"
    ELSE v[1] \notin {"float", "int"}

\* A foreign result that is not a sequence of nine-field tuples of the
\* expected types.
Malformed(v) ==
    \/ v[1] \notin {"list", "tuple"}
    \/ \E i \in DOMAIN v[2] :
          \/ v[2][i][1] # "tuple"
          \/ Len(v[2][i][2]) # TupleArity
          \/ \E k \in 1..TupleArity : BadField(k, v[2][i][2][k])

\* C7: in both variants, when transcribe_audio returns a value that is not a
\* sequence of nine-field tuples of the expected types, the call returns an
\* error: no panic, no Ok, and no Segment vector is ever built from a part of it.
C7_MalformedIsError ==
    /\ \A d \in done :
          (d.op \in TranscribeOps /\ d.pysegments # Unset /\ Malformed(d.pysegments)) =>
              IsErr(d.outcome)
    /\ \A t \in Threads :
          pc[t] \in {"t_text", "mt_text"} => ~Malformed(frame[t].pysegments)

\* Both variants have ended on a result whose second tuple has eight fields
\* between two tuples that fit.
C7_Witness ==
    \A o \in TranscribeOps :
        \E d \in done :
            /\ d.op = o
            /\ d.pysegments = PyList(<<TupleA, TupleShort, TupleB>>)
            /\ IsErr(d.outcome)

----------------------------------------------------------------------------
(* C8 *)

\* The call ended on a failed lookup of an entry point, a raising entry
\* point or a failed extraction (and not on the load of the script).
FailedAfterLoad(d) ==
    /\ ~IsOk(d.outcome)
    /\ \E i \in DOMAIN d.calls :
          /\ d.calls[i].call \in {"getattr", "new_model", "transcribe_audio", "extract"}
          /\ i + 1 = Len(d.calls)

\* C8: WhisperModel::new gives a failure of the foreign construction (no
\* new_model entry point, or new_model raising) back as Err; only
\* WhisperModel::default panics on it.
C8_NewReturnsErr ==
    \A d \in done :
        /\ (d.op = "WhisperModel::new" /\ FailedAfterLoad(d)) => IsErr(d.outcome)
        /\ (d.op = "WhisperModel::default" /\ FailedAfterLoad(d)) => IsPanic(d.outcome)

----------------------------------------------------------------------------
(* C9 *)

\* C9: in both variants' transcribe a missing entry point, a failed type
\* conversion or a raised foreign exception comes back as Err (no panic, no
\* Ok) and the foreign call is not made a second time.
C9_FailuresAreErr ==
    \A d \in done :
        (d.op \in TranscribeOps /\ FailedAfterLoad(d)) =>
            /\ IsErr(d.outcome)
            /\ Count(d.calls, "transcribe_audio") <= 1
            /\ Count(d.calls, "new_model") <= 1

----------------------------------------------------------------------------
(* C10 *)

\* The script loads and defines new_model.
NewModelAvailable == rt.defect \notin {"import_fails", "no_new_model"}

\* The trace attaches once, as its first event, and releases as its last.
OneHold(calls) ==
    /\ EventsOf(calls, "attach") = {1}
    /\ EventsOf(calls, "release") = {Len(calls)}

\* C10: WhisperTranscriber::new calls nothing in the foreign runtime; each
\* WhisperTranscriber::transcribe loads the script once and calls new_model
\* once (never twice; once whenever the script loads and defines it), before
\* its transcribe_audio call and in the same hold of the lock (one attach
\* before the load, one release after the last call);
\* WhisperModel::new calls new_model once in the same way;
\* WhisperModel::transcribe never loads the script or calls new_model and
\* passes the module and the model handle that new stored.
C10_CallDiscipline ==
    \A d \in done :
        /\ d.op = "WhisperTranscriber::new" => d.calls = <<>>
        /\ d.op = "WhisperTranscriber::transcribe" =>
              /\ OneHold(d.calls)
              /\ Count(d.calls, "from_code") = 1
              /\ Count(d.calls, "new_model") = (IF NewModelAvailable THEN 1 ELSE 0)
              /\ Count(d.calls, "transcribe_audio") <= 1
              /\ \A j \in EventsOf(d.calls, "transcribe_audio") :
                    \E i \in EventsOf(d.calls, "new_model") :
                        /\ i < j
                        /\ d.calls[j].args[1].args = d.calls[i].args
        /\ d.op \in ConstructOps =>
              /\ OneHold(d.calls)
              /\ Count(d.calls, "from_code") = 1
              /\ Count(d.calls, "new_model") = (IF NewModelAvailable THEN 1 ELSE 0)
              /\ Count(d.calls, "transcribe_audio") = 0
        /\ d.op = "WhisperModel::transcribe" =>
              /\ OneHold(d.calls)
              /\ Count(d.calls, "from_code") = 0
              /\ Count(d.calls, "new_model") = 0
              /\ \E c \in done : c.op \in ConstructOps /\ c.outcome = Ok(d.self)
              /\ \A j \in EventsOf(d.calls, "getattr") : d.calls[j].args[1] = d.self.module
              /\ \A j \in EventsOf(d.calls, "transcribe_audio") :
                    d.calls[j].args[1] = d.self.model


\* A model built by new has transcribed with its stored handle, and a
\* transcriber has transcribed with a handle built in the same call.
C10_Witness ==
    /\ \E d \in done :
          /\ d.op = "WhisperModel::transcribe"
          /\ TranscribeAudioArgs(d) # {}
    /\ \E e \in done :
          /\ e.op = "WhisperTranscriber::transcribe"
          /\ TranscribeAudioArgs(e) # {}
    /\ \E c \in done : c.op = "WhisperModel::new" /\ IsOk(c.outcome)

====
